---- MODULE Spec2Model ----
(***************************************************************************)
(* Model of create_frustum_mesh (src/app.py, lines 5-71): the builder of   *)
(* the vertex and face arrays of a frustum.                                *)
(*                                                                         *)
(* Numbers.  The arguments are integers counted in half metres (top radius *)
(* 1.0 m is 2, bottom radius 0.5 m is 1, height 5.0 m is 10).  np.cos and  *)
(* np.sin of the angle theta[k] = 2*pi*k/n_segments are taken in           *)
(* thousandths, rounded to the nearest integer, so a coordinate of the     *)
(* vertex array is an integer in units of 1/1000 half metre.               *)
(*                                                                         *)
(* Indices.  The face array holds the 0-based vertex indices the code      *)
(* writes; vertex k of the Python list is verts[k + 1] here.               *)
(***************************************************************************)
EXTENDS Integers, Sequences, FiniteSets, TLC

VARIABLES
    center_pos,         \* argument: [x, y, z] of the bottom centre
    top_radius,         \* argument
    bottom_radius,      \* argument
    height,             \* argument
    n_segments,         \* argument
    verts,              \* local list, then the returned vertex array
    faces,              \* local list, then the returned face array
    bottom_center_idx,  \* local, -1 while unassigned
    top_center_idx,     \* local, -1 while unassigned
    i,                  \* loop variable of the running for loop
    pc,                 \* position in the function body
    ref                 \* history: arguments and result of one earlier call

vars == <<center_pos, top_radius, bottom_radius, height, n_segments, verts,
          faces, bottom_center_idx, top_center_idx, i, pc, ref>>

args == <<center_pos, top_radius, bottom_radius, height, n_segments>>

----------------------------------------------------------------------------
(* Bounds and input sets *)

MaxSegments == 5

Segments == 1..MaxSegments
Centers == { <<0, 0, 0>>, <<2, -4, 6>> }
TopRadii == {0, 2}
BottomRadii == {0, 1}
Heights == {-6, 6, 10}

----------------------------------------------------------------------------
(* np.cos(theta[k]) and np.sin(theta[k]) for theta = linspace(0, 2*pi, n,  *)
(* endpoint=False), in thousandths.                                        *)

CosTable ==
    << <<1000>>,
       <<1000, -1000>>,
       <<1000, -500, -500>>,
       <<1000, 0, -1000, 0>>,
       <<1000, 309, -809, -809, 309>>,
       <<1000, 500, -500, -1000, -500, 500>>,
       <<1000, 623, -223, -901, -901, -223, 623>>,
       <<1000, 707, 0, -707, -1000, -707, 0, 707>> >>

SinTable ==
    << <<0>>,
       <<0, 0>>,
       <<0, 866, -866>>,
       <<0, 1000, 0, -1000>>,
       <<0, 951, 588, -588, -951>>,
       <<0, 866, 866, 0, -866, -866>>,
       <<0, 782, 975, 434, -434, -975, -782>>,
       <<0, 707, 1000, 707, 0, -707, -1000, -707>> >>

Cos(segs, k) == CosTable[segs][k + 1]
Sin(segs, k) == SinTable[segs][k + 1]

\* A plain argument value (half metres) in the unit of the vertex array.
Fix(v) == v * 1000

----------------------------------------------------------------------------
(* The loop bodies *)

BottomVertexSwapped(k) ==
    << Fix(center_pos[1]) + top_radius * Cos(n_segments, k),
       Fix(center_pos[2]) + top_radius * Sin(n_segments, k),
       Fix(center_pos[3]) >>

\* lines 27-30
BottomVertex(k) ==
    << Fix(center_pos[1]) + bottom_radius * Cos(n_segments, k),
       Fix(center_pos[2]) + bottom_radius * Sin(n_segments, k),
       Fix(center_pos[3]) >>

TopVertexAbsHeight(k) ==
    << Fix(center_pos[1]) + top_radius * Cos(n_segments, k),
       Fix(center_pos[2]) + top_radius * Sin(n_segments, k),
       Fix(center_pos[3]) + Fix(IF height < 0 THEN -height ELSE height) >>

\* lines 34-37
TopVertex(k) ==
    << Fix(center_pos[1]) + top_radius * Cos(n_segments, k),
       Fix(center_pos[2]) + top_radius * Sin(n_segments, k),
       Fix(center_pos[3]) + Fix(height) >>

\* line 40
BottomCenter == << Fix(center_pos[1]), Fix(center_pos[2]), Fix(center_pos[3]) >>

\* line 44
TopCenter ==
    << Fix(center_pos[1]), Fix(center_pos[2]), Fix(center_pos[3]) + Fix(height) >>

LastIdxOffByOne(vs) == Len(vs)

\* lines 41 and 45: len(verts) - 1
LastIdx(vs) == Len(vs) - 1

NextIdxNoWrap(k) == k + 1

\* lines 54, 62, 68: (i + 1) % n_segments
NextIdx(k) == (k + 1) % n_segments

SideFacesFirstOnly(k) ==
    << <<k, k + n_segments, NextIdx(k) + n_segments>> >>

SideFacesOtherDiagonal(k) ==
    << <<k, k + n_segments, NextIdx(k)>>,
       <<NextIdx(k), k + n_segments, NextIdx(k) + n_segments>> >>

\* lines 54-58
SideFaces(k) ==
    << <<k, k + n_segments, NextIdx(k) + n_segments>>,
       <<k, NextIdx(k), NextIdx(k) + n_segments>> >>

BottomCapFaceWrongCenter(k) == <<k, NextIdx(k), top_center_idx>>

\* line 62
BottomCapFace(k) == <<k, NextIdx(k), bottom_center_idx>>

\* lines 67-69
TopCapFace(k) ==
    <<k + n_segments, NextIdx(k) + n_segments, top_center_idx>>

StaleVerts == verts

\* line 23: verts = []
FreshVerts == <<>>

----------------------------------------------------------------------------
(* The state machine *)

NoRef ==
    [center |-> <<0, 0, 0>>, top |-> 0, bottom |-> 0, height |-> 0, n |-> 0,
     verts |-> <<>>, faces |-> <<>>]

\* The arguments and the returned pair of the call that has just returned.
Returned ==
    [center |-> center_pos, top |-> top_radius, bottom |-> bottom_radius,
     height |-> height, n |-> n_segments, verts |-> verts, faces |-> faces]

Init ==
    /\ center_pos \in Centers
    /\ top_radius \in TopRadii
    /\ bottom_radius \in BottomRadii
    /\ height \in Heights
    /\ n_segments \in Segments
    /\ verts = <<>>
    /\ faces = <<>>
    /\ bottom_center_idx = -1
    /\ top_center_idx = -1
    /\ i = 0
    /\ pc = "bottom_circle"
    /\ ref = NoRef

\* lines 5-23: a new call, after the previous one returned.  The caller may
\* keep the previous result (ref) to compare later results with.
Call ==
    /\ pc = "done"
    /\ center_pos' \in Centers
    /\ top_radius' \in TopRadii
    /\ bottom_radius' \in BottomRadii
    /\ height' \in Heights
    /\ n_segments' \in Segments
    /\ verts' = FreshVerts
    /\ faces' = <<>>
    /\ bottom_center_idx' = -1
    /\ top_center_idx' = -1
    /\ i' = 0
    /\ pc' = "bottom_circle"
    /\ ref' \in {ref, Returned}

\* The loop header `for i in range(n_segments)`: after the body ran for i,
\* either the next iteration or the statement after the loop.
Advance(after) ==
    IF i + 1 < n_segments
    THEN i' = i + 1 /\ pc' = pc
    ELSE i' = 0 /\ pc' = after

\* lines 26-30
BottomCircle ==
    /\ pc = "bottom_circle"
    /\ verts' = Append(verts, BottomVertex(i))
    /\ Advance("top_circle")
    /\ UNCHANGED <<args, faces, bottom_center_idx, top_center_idx, ref>>

\* lines 33-37
TopCircle ==
    /\ pc = "top_circle"
    /\ verts' = Append(verts, TopVertex(i))
    /\ Advance("centers")
    /\ UNCHANGED <<args, faces, bottom_center_idx, top_center_idx, ref>>

\* lines 40-50
CenterPoints ==
    /\ pc = "centers"
    /\ verts' = Append(Append(verts, BottomCenter), TopCenter)
    /\ bottom_center_idx' = LastIdx(Append(verts, BottomCenter))
    /\ top_center_idx' = LastIdx(verts')
    /\ faces' = <<>>
    /\ pc' = "side_faces"
    /\ UNCHANGED <<args, i, ref>>

\* lines 53-58
SideLoop ==
    /\ pc = "side_faces"
    /\ faces' = faces \o SideFaces(i)
    /\ Advance("bottom_cap")
    /\ UNCHANGED <<args, verts, bottom_center_idx, top_center_idx, ref>>

\* lines 61-62
BottomCapLoop ==
    /\ pc = "bottom_cap"
    /\ faces' = Append(faces, BottomCapFace(i))
    /\ Advance("top_cap")
    /\ UNCHANGED <<args, verts, bottom_center_idx, top_center_idx, ref>>

\* lines 65-69
TopCapLoop ==
    /\ pc = "top_cap"
    /\ faces' = Append(faces, TopCapFace(i))
    /\ Advance("return")
    /\ UNCHANGED <<args, verts, bottom_center_idx, top_center_idx, ref>>

\* line 71
Return ==
    /\ pc = "return"
    /\ pc' = "done"
    /\ UNCHANGED <<args, verts, faces, bottom_center_idx, top_center_idx, i, ref>>

Next ==
    \/ Call
    \/ BottomCircle
    \/ TopCircle
    \/ CenterPoints
    \/ SideLoop
    \/ BottomCapLoop
    \/ TopCapLoop
    \/ Return

Spec == Init /\ [][Next]_vars

----------------------------------------------------------------------------
(* Vocabulary of the properties *)

Done == pc = "done"

n == n_segments

FaceIds == 1..Len(faces)

\* The three directed edges of a face (i, j, k): i->j, j->k, k->i.
DirectedEdges(f) == { <<f[1], f[2]>>, <<f[2], f[3]>>, <<f[3], f[1]>> }

AllDirectedEdges == UNION { DirectedEdges(faces[k]) : k \in FaceIds }

\* Number of faces that hold the directed edge a->b.
DirCount(a, b) ==
    Cardinality({ k \in FaceIds : <<a, b>> \in DirectedEdges(faces[k]) })

\* Number of faces that hold the undirected edge {a, b}.
UndirCount(a, b) ==
    Cardinality({ k \in FaceIds :
        <<a, b>> \in DirectedEdges(faces[k]) \/ <<b, a>> \in DirectedEdges(faces[k]) })

Closed == \A e \in AllDirectedEdges : UndirCount(e[1], e[2]) = 2

Watertight ==
    \A e \in AllDirectedEdges : DirCount(e[1], e[2]) = 1 /\ DirCount(e[2], e[1]) = 1

IndexSet(f) == { f[1], f[2], f[3] }

SameArgs ==
    /\ ref.center = center_pos
    /\ ref.top = top_radius
    /\ ref.bottom = bottom_radius
    /\ ref.height = height
    /\ ref.n = n_segments

NegatedHeight ==
    /\ ref.center = center_pos
    /\ ref.top = top_radius
    /\ ref.bottom = bottom_radius
    /\ ref.height = -height
    /\ ref.n = n_segments

\* The scenario of the specification: center (0,0,0), top radius 1.0, bottom
\* radius 0.5, height 5.0, 4 segments.
Scenario ==
    /\ center_pos = <<0, 0, 0>>
    /\ top_radius = 2
    /\ bottom_radius = 1
    /\ height = 10
    /\ n_segments = 4

----------------------------------------------------------------------------
(* C1: for every segments >= 3 the returned mesh has exactly               *)
(* 2*segments + 2 vertices and exactly 4*segments faces.                   *)
C1_Counts ==
    (Done /\ n >= 3) => (Len(verts) = 2 * n + 2 /\ Len(faces) = 4 * n)

C1_Witness == Done /\ n = 5 /\ Len(verts) = 12 /\ Len(faces) = 20

(* C2: every index of every returned face is an integer in                 *)
(* [0, vertexCount), for every segments >= 3.                              *)
C2_IndicesInRange ==
    (Done /\ n >= 3) =>
        \A k \in FaceIds : \A j \in 1..3 : faces[k][j] \in 0..(Len(verts) - 1)

C2_Witness ==
    Done /\ n = 3 /\ \E k \in FaceIds : faces[k][3] = Len(verts) - 1

(* C3: for segments >= 3 and any non-negative radii the mesh is closed:    *)
(* every undirected edge that occurs in some face occurs in exactly two    *)
(* faces.                                                                  *)
C3_Closed == (Done /\ n >= 3) => Closed

C3_Witness ==
    Done /\ n = 3 /\ top_radius = 0 /\ bottom_radius = 1 /\ UndirCount(2, 0) = 2

(* C4: consistent winding - every directed edge of every face occurs in    *)
(* exactly one face and its reverse in exactly one face, for every         *)
(* segments >= 3.                                                          *)
C4_Watertight == (Done /\ n >= 3) => Watertight

(* C5: the vertex layout - vertex i is the bottom-circle point of angle    *)
(* index i, vertex n+i the top-circle point of the same angle index at     *)
(* z = center.z + height, vertex 2n the center and vertex 2n+1 the center  *)
(* raised by height; in the scenario of the specification vertex 0 is      *)
(* (0.5,0,0), vertex 4 (1.0,0,5.0), vertex 8 (0,0,0), vertex 9 (0,0,5.0).  *)
C5_Layout ==
    Done =>
        /\ Len(verts) = 2 * n + 2
        /\ \A k \in 0..(n - 1) :
            /\ verts[k + 1] =
                 << 1000 * center_pos[1] + bottom_radius * Cos(n, k),
                    1000 * center_pos[2] + bottom_radius * Sin(n, k),
                    1000 * center_pos[3] >>
            /\ verts[n + k + 1] =
                 << 1000 * center_pos[1] + top_radius * Cos(n, k),
                    1000 * center_pos[2] + top_radius * Sin(n, k),
                    1000 * (center_pos[3] + height) >>
        /\ verts[2 * n + 1] =
             << 1000 * center_pos[1], 1000 * center_pos[2], 1000 * center_pos[3] >>
        /\ verts[2 * n + 2] =
             << 1000 * center_pos[1], 1000 * center_pos[2],
                1000 * (center_pos[3] + height) >>
        /\ Scenario =>
            /\ verts[1] = <<500 * 2, 0, 0>>
            /\ verts[5] = <<1000 * 2, 0, 5000 * 2>>
            /\ verts[9] = <<0, 0, 0>>
            /\ verts[10] = <<0, 0, 5000 * 2>>
            /\ Len(faces) = 16

C5_Witness == Done /\ Scenario /\ Len(verts) = 10

(* C6: with topRadius = 0 and segments >= 3 the call returns, every        *)
(* top-circle vertex equals the top-center vertex, and the mesh has        *)
(* 2*segments + 2 vertices, 4*segments faces and is watertight.            *)
C6_ConeWatertight ==
    (Done /\ n >= 3 /\ top_radius = 0) =>
        /\ Len(verts) = 2 * n + 2
        /\ Len(faces) = 4 * n
        /\ \A k \in (n + 1)..(2 * n) : verts[k] = verts[2 * n + 2]
        /\ Watertight

(* C7: negating the height leaves the face list, the bottom ring and the   *)
(* bottom center unchanged, and puts every top-ring vertex and the top     *)
(* center at z = center.z - h with unchanged x and y; the face list        *)
(* depends on segments only.                                               *)
C7_NegatedHeight ==
    /\ (Done /\ ref.n = n) => faces = ref.faces
    /\ (Done /\ NegatedHeight) =>
        /\ Len(verts) = Len(ref.verts)
        /\ \A k \in (1..n) \cup {2 * n + 1} : verts[k] = ref.verts[k]
        /\ \A k \in ((n + 1)..(2 * n)) \cup {2 * n + 2} :
            /\ verts[k][1] = ref.verts[k][1]
            /\ verts[k][2] = ref.verts[k][2]
            /\ verts[k][3] = 1000 * (center_pos[3] - ref.height)

C7_Witness ==
    Done /\ NegatedHeight /\ height = -6 /\ n = 4 /\ top_radius = 2
        /\ verts[5][3] # ref.verts[5][3]

(* C8: two calls with identical arguments return identical vertex and face *)
(* arrays, whatever calls were made in between, and a call changes none of *)
(* its arguments.                                                          *)
C8_Pure ==
    /\ []((Done /\ SameArgs) => (verts = ref.verts /\ faces = ref.faces))
    /\ [][pc # "done" => args' = args]_vars

C8_Witness == Done /\ SameArgs /\ n = 4 /\ Len(ref.verts) = 10

(* C9: the face list is, in order, the 2n side faces (i, n+i, n+next) and  *)
(* (i, next, n+next), then the n bottom-cap faces (i, next, 2n), then the  *)
(* n top-cap faces (n+i, n+next, 2n+1), where next is i+1 and, for the     *)
(* last segment i = n-1, index 0.                                          *)
Succ(k) == IF k = n - 1 THEN 0 ELSE k + 1

C9_FaceScheme ==
    Done =>
        /\ Len(faces) = 4 * n
        /\ \A k \in 0..(n - 1) :
            /\ faces[2 * k + 1] = <<k, n + k, n + Succ(k)>>
            /\ faces[2 * k + 2] = <<k, Succ(k), n + Succ(k)>>
            /\ faces[2 * n + k + 1] = <<k, Succ(k), 2 * n>>
            /\ faces[3 * n + k + 1] = <<n + k, n + Succ(k), 2 * n + 1>>

C9_Witness ==
    Done /\ n = 4 /\ faces[8] = <<3, 0, 4>> /\ faces[12] = <<3, 0, 8>>
        /\ faces[16] = <<7, 4, 9>>

(* C10: for segments >= 3 every face has three distinct indices, no two    *)
(* faces have the same index set and every vertex index is used by a face; *)
(* for segments 1 or 2 the call still returns, with a face that repeats an *)
(* index or two faces over the same index set.                             *)
NonDegenerate ==
    /\ \A k \in FaceIds : Cardinality(IndexSet(faces[k])) = 3
    /\ \A k, m \in FaceIds : k # m => IndexSet(faces[k]) # IndexSet(faces[m])
    /\ \A v \in 0..(2 * n + 1) : \E k \in FaceIds : v \in IndexSet(faces[k])

HasDegenerateFace ==
    \/ \E k \in FaceIds : Cardinality(IndexSet(faces[k])) < 3
    \/ \E k, m \in FaceIds : k # m /\ IndexSet(faces[k]) = IndexSet(faces[m])

C10_NonDegenerate ==
    Done =>
        /\ n >= 3 => NonDegenerate
        /\ n < 3 => HasDegenerateFace

C10_Witness ==
    Done /\ n = 3 /\ NonDegenerate /\ ref.n = 2 /\ Len(ref.faces) = 8

====
